---- MODULE Spec2Model ----
(***************************************************************************)
(* A model of pico_sat.h: the separating-axis tests for convex polygons    *)
(* and circles, their constructors and the collision manifold.             *)
(*                                                                         *)
(* pm_float is modelled as a signed fixed-point number with Scale steps    *)
(* per unit.  Every input (vertex, centre, radius, box) is a whole number  *)
(* of units, and every polygon of the catalogue has edges of whole length  *)
(* (axis-aligned or 3-4-5), so sums, products, dot products and face       *)
(* normals are exact; only pm_sqrt and pm_v2_normalize of a vertex-to-     *)
(* centre vector round, as they do in floating point.                      *)
(***************************************************************************)
EXTENDS Integers, Sequences, FiniteSets, TLC

\* ------------------------------------------------------------ bounds

\* Centres of the second circle range over (-MaxCoord..MaxCoord)^2.
MaxCoord == 3
\* Positions of the second polygon range over (-MaxOff..MaxOff)^2.
MaxOff == 2
\* Circle radii range over 0..MaxRadius.
MaxRadius == 2

\* ------------------------------------------------- program constants

PICO_SAT_MAX_POLY_VERTS == 8

\* The sentinel of sat_init_manifold; larger than every finite value here.
FLT_MAX == 2000000000

\* ------------------------------------------------ pm_float, pm_v2

\* Fixed-point steps per unit.
Scale == 1000

F(n) == n * Scale

pm_abs(a) == IF a < 0 THEN 0 - a ELSE a

\* Rounds toward zero, so that (-a)*b = -(a*b) as in floating point.
FMul(a, b) ==
    LET p == a * b
    IN  IF p >= 0 THEN p \div Scale ELSE 0 - ((0 - p) \div Scale)

FDiv(a, b) ==
    LET p == a * Scale
        q == pm_abs(p) \div pm_abs(b)
    IN  IF (p >= 0) = (b > 0) THEN q ELSE 0 - q

RECURSIVE SqrtSearch(_, _, _)
\* The largest r in lo..hi with r*r <= n.
SqrtSearch(n, lo, hi) ==
    IF lo >= hi THEN lo
    ELSE LET mid == (lo + hi + 1) \div 2
         IN  IF mid * mid <= n THEN SqrtSearch(n, mid, hi)
                               ELSE SqrtSearch(n, lo, mid - 1)

pm_sqrt(a) == SqrtSearch(a * Scale, 0, 46340)

pm_v2_make(x, y) == [x |-> x, y |-> y]

pm_v2_zero == pm_v2_make(0, 0)

pm_v2_sub(a, b) == pm_v2_make(a.x - b.x, a.y - b.y)

pm_v2_neg(v) == pm_v2_make(0 - v.x, 0 - v.y)

pm_v2_scale(v, c) == pm_v2_make(FMul(v.x, c), FMul(v.y, c))

pm_v2_dot(a, b) == FMul(a.x, b.x) + FMul(a.y, b.y)

pm_v2_len2(v) == pm_v2_dot(v, v)

pm_v2_len(v) == pm_sqrt(pm_v2_len2(v))

\* The quarter turn that sends an edge of a polygon wound as
\* sat_aabb_to_poly winds its box to the outward side of that edge.
pm_v2_perp(v) == pm_v2_make(0 - v.y, v.x)

pm_v2_normalize(v) ==
    LET c == pm_v2_len(v)
    IN  IF c = 0 THEN pm_v2_zero
        ELSE pm_v2_make(FDiv(v.x, c), FDiv(v.y, c))

pm_b2_make(x, y, w, h) == [x |-> x, y |-> y, w |-> w, h |-> h]

pm_b2_pos(aabb) == pm_v2_make(aabb.x, aabb.y)

pm_b2_size(aabb) == pm_v2_make(aabb.w, aabb.h)

\* ------------------------------------------------------------ shapes

NoShape == [kind |-> "none"]

sat_make_circle(pos, radius) ==
    [kind |-> "circle", pos |-> pos, radius |-> radius]

\* vertices is a sequence (1-based); the arrays of sat_poly_t are 0-based
\* functions over 0..vertex_count-1.  The entries from vertex_count up to
\* PICO_SAT_MAX_POLY_VERTS-1 are never written and are not part of the value.
sat_make_poly(vertex_count, vertices) ==
    LET next(i) == IF (i + 1) = vertex_count THEN 0 ELSE i + 1
        vs == [i \in 0..(vertex_count - 1) |-> vertices[i + 1]]
        es == [i \in 0..(vertex_count - 1) |->
                  pm_v2_sub(vertices[next(i) + 1], vertices[i + 1])]
    IN  [kind |-> "poly",
         vertex_count |-> vertex_count,
         vertices |-> vs,
         normals |-> [i \in 0..(vertex_count - 1) |->
                         pm_v2_normalize(pm_v2_perp(es[i]))],
         edges |-> es]

\* sat_aabb_to_poly listing the corners the other way round.
sat_aabb_to_poly_reversed(aabb) ==
    LET pos == pm_b2_pos(aabb)
        size == pm_b2_size(aabb)
    IN  sat_make_poly(4, << pm_v2_make(pos.x, pos.y),
                            pm_v2_make(pos.x + size.x, pos.y),
                            pm_v2_make(pos.x + size.x, pos.y + size.y),
                            pm_v2_make(pos.x, pos.y + size.y) >>)

sat_aabb_to_poly(aabb) ==
    LET pos == pm_b2_pos(aabb)
        size == pm_b2_size(aabb)
    IN  sat_make_poly(4, << pm_v2_make(pos.x, pos.y),
                            pm_v2_make(pos.x, pos.y + size.y),
                            pm_v2_make(pos.x + size.x, pos.y + size.y),
                            pm_v2_make(pos.x + size.x, pos.y) >>)

\* ---------------------------------------------------------- manifold

sat_init_manifold ==
    [normal |-> pm_v2_zero, overlap |-> FLT_MAX, vector |-> pm_v2_zero]

\* sat_update_manifold without the comparison: the last candidate wins.
sat_update_manifold_last(manifold, normal, overlap) ==
    LET abs_overlap == pm_abs(overlap)
        n == IF overlap < 0 THEN pm_v2_neg(normal)
             ELSE IF overlap > 0 THEN normal
             ELSE manifold.normal
    IN  [normal |-> n,
         overlap |-> abs_overlap,
         vector |-> pm_v2_scale(n, abs_overlap)]

sat_update_manifold(manifold, normal, overlap) ==
    LET abs_overlap == pm_abs(overlap)
    IN  IF abs_overlap < manifold.overlap
        THEN LET n == IF overlap < 0 THEN pm_v2_neg(normal)
                      ELSE IF overlap > 0 THEN normal
                      ELSE manifold.normal
             IN  [normal |-> n,
                  overlap |-> abs_overlap,
                  vector |-> pm_v2_scale(n, abs_overlap)]
        ELSE manifold

\* ----------------------------------------------------- circle-circle

\* sat_test_circle_circle with the boundary test written as > (tangent
\* circles collide).
sat_test_circle_circle_gt(circle1, circle2, hasM, m) ==
    LET m0 == IF hasM THEN sat_init_manifold ELSE m
        diff == pm_v2_sub(circle2.pos, circle1.pos)
        dist2 == pm_v2_len2(diff)
        total_radius == circle1.radius + circle2.radius
        total_radius2 == FMul(total_radius, total_radius)
    IN  IF dist2 > total_radius2
        THEN [ret |-> FALSE, manifold |-> m0, trace |-> << >>]
        ELSE LET dist == pm_sqrt(dist2)
                 overlap == total_radius - dist
                 normal == pm_v2_normalize(diff)
                 m2 == IF hasM THEN sat_update_manifold(m0, normal, overlap)
                       ELSE m0
             IN  [ret |-> TRUE, manifold |-> m2,
                  trace |-> IF hasM
                            THEN << [exit |-> FALSE, normal |-> normal,
                                     overlap |-> overlap,
                                     before |-> m0, after |-> m2] >>
                            ELSE << >>]

\* hasM says whether the caller passed a manifold (m) or NULL.  The trace
\* holds the one sat_update_manifold step of a call that returns true.
sat_test_circle_circle(circle1, circle2, hasM, m) ==
    LET m0 == IF hasM THEN sat_init_manifold ELSE m
        diff == pm_v2_sub(circle2.pos, circle1.pos)
        dist2 == pm_v2_len2(diff)
        total_radius == circle1.radius + circle2.radius
        total_radius2 == FMul(total_radius, total_radius)
    IN  IF dist2 >= total_radius2
        THEN [ret |-> FALSE, manifold |-> m0, trace |-> << >>]
        ELSE LET dist == pm_sqrt(dist2)
                 overlap == total_radius - dist
                 normal == pm_v2_normalize(diff)
                 m2 == IF hasM THEN sat_update_manifold(m0, normal, overlap)
                       ELSE m0
             IN  [ret |-> TRUE, manifold |-> m2,
                  trace |-> IF hasM
                            THEN << [exit |-> FALSE, normal |-> normal,
                                     overlap |-> overlap,
                                     before |-> m0, after |-> m2] >>
                            ELSE << >>]

\* ---------------------------------------------------------- poly-poly

RECURSIVE AxisRangeLoop(_, _, _, _, _)
AxisRangeLoop(poly, normal, i, min, max) ==
    IF i >= poly.vertex_count THEN << min, max >>
    ELSE LET dot == pm_v2_dot(poly.vertices[i], normal)
         IN  AxisRangeLoop(poly, normal, i + 1,
                           IF dot < min THEN dot ELSE min,
                           IF dot > max THEN dot ELSE max)

\* << range[0], range[1] >> of the code, as the pair << min, max >>.
sat_axis_range(poly, normal) ==
    LET dot == pm_v2_dot(poly.vertices[0], normal)
    IN  AxisRangeLoop(poly, normal, 1, dot, dot)

\* sat_axis_overlap with the first half of the disjointness test left out.
sat_axis_overlap_half(poly1, poly2, axis) ==
    LET range1 == sat_axis_range(poly1, axis)
        range2 == sat_axis_range(poly2, axis)
    IN  IF range2[2] < range1[1] THEN 0
        ELSE LET overlap1 == range1[2] - range2[1]
                 overlap2 == range2[2] - range1[1]
             IN  IF overlap2 > overlap1 THEN overlap1 ELSE 0 - overlap2

sat_axis_overlap(poly1, poly2, axis) ==
    LET range1 == sat_axis_range(poly1, axis)
        range2 == sat_axis_range(poly2, axis)
    IN  IF range1[2] < range2[1] \/ range2[2] < range1[1] THEN 0
        ELSE LET overlap1 == range1[2] - range2[1]
                 overlap2 == range2[2] - range1[1]
             IN  IF overlap2 > overlap1 THEN overlap1 ELSE 0 - overlap2

\* poly->normals[i].  sat_make_poly writes the entries 0..vertex_count-1
\* only; a read at or beyond vertex_count yields the indeterminate value g.
ReadNormal(poly, i, g) ==
    IF i < poly.vertex_count THEN poly.normals[i] ELSE g

RECURSIVE PolyPolyLoop2(_, _, _, _, _, _)
\* The second loop of sat_test_poly_poly, from index i on.
PolyPolyLoop2(poly1, poly2, hasM, m, i, tr) ==
    IF i >= poly2.vertex_count
    THEN [ret |-> TRUE, manifold |-> m, trace |-> tr]
    ELSE LET axis == poly2.normals[i]
             overlap == sat_axis_overlap(poly2, poly1, axis)
             m2 == IF hasM /\ overlap # 0
                   THEN sat_update_manifold(m, poly2.normals[i], overlap)
                   ELSE m
             step == [loop |-> 2, i |-> i, axis |-> axis, overlap |-> overlap,
                      read |-> hasM /\ overlap # 0, inRange |-> TRUE,
                      exit |-> overlap = 0, before |-> m, after |-> m2]
         IN  IF overlap = 0
             THEN [ret |-> FALSE, manifold |-> m, trace |-> Append(tr, step)]
             ELSE PolyPolyLoop2(poly1, poly2, hasM, m2, i + 1, Append(tr, step))

RECURSIVE PolyPolyLoop1(_, _, _, _, _, _, _)
\* The first loop of sat_test_poly_poly, from index i on, then the second.
PolyPolyLoop1(poly1, poly2, hasM, m, g, i, tr) ==
    IF i >= poly1.vertex_count
    THEN PolyPolyLoop2(poly1, poly2, hasM, m, 0, tr)
    ELSE LET axis == poly1.normals[i]
             overlap == sat_axis_overlap(poly1, poly2, axis)
             m2 == IF hasM /\ overlap # 0
                   THEN sat_update_manifold(m, ReadNormal(poly2, i, g), overlap)
                   ELSE m
             step == [loop |-> 1, i |-> i, axis |-> axis, overlap |-> overlap,
                      read |-> hasM /\ overlap # 0,
                      inRange |-> i < poly2.vertex_count,
                      exit |-> overlap = 0, before |-> m, after |-> m2]
         IN  IF overlap = 0
             THEN [ret |-> FALSE, manifold |-> m, trace |-> Append(tr, step)]
             ELSE PolyPolyLoop1(poly1, poly2, hasM, m2, g, i + 1, Append(tr, step))

\* g is what an uninitialised normals[] entry of poly2 happens to hold.
sat_test_poly_poly(poly1, poly2, hasM, m, g) ==
    PolyPolyLoop1(poly1, poly2, hasM,
                  IF hasM THEN sat_init_manifold ELSE m, g, 0, << >>)

\* -------------------------------------------------------- poly-circle

sat_voronoi_region(point, line) ==
    LET len2 == pm_v2_len2(line)
        dot == pm_v2_dot(point, line)
    IN  IF dot < 0 THEN "LEFT"
        ELSE IF dot > len2 THEN "RIGHT"
        ELSE "MIDDLE"

\* One iteration of the loop of sat_test_poly_circle, up to (not including)
\* the sat_update_manifold call: the neighbour indices, the two voronoi
\* classifications ("NONE" when the second is not computed), whether the
\* routine returns false here, and the candidate normal and overlap.
\* The loop body with the face-normal branch taken whenever no vertex case
\* is confirmed (a plain "else" turned into the default).
PolyCircleEdge_fallthrough(poly, circle, hasM, i) ==
    LET count == poly.vertex_count
        radius2 == FMul(circle.radius, circle.radius)
        next == IF (i + 1) = count THEN 0 ELSE i + 1
        prev == IF (i - 1) <= 0 THEN count - 1 ELSE i - 1
        point == pm_v2_sub(circle.pos, poly.vertices[i])
        region == sat_voronoi_region(point, poly.edges[i])
        other == IF region = "LEFT" THEN prev ELSE next
        point2 == pm_v2_sub(circle.pos, poly.vertices[other])
        region2 == IF region = "MIDDLE" THEN "NONE"
                   ELSE sat_voronoi_region(point2, poly.edges[other])
        vertexCase == \/ region = "LEFT" /\ region2 = "RIGHT"
                      \/ region = "RIGHT" /\ region2 = "LEFT"
        diff2 == pm_v2_len2(point)
        faceDiff == pm_v2_dot(poly.normals[i], point)
        base == [i |-> i, prev |-> prev, next |-> next,
                 region |-> region, region2 |-> region2]
    IN  IF vertexCase
        THEN base @@ [exit |-> diff2 > radius2,
                      normal |-> IF hasM /\ ~(diff2 > radius2)
                                 THEN pm_v2_normalize(point) ELSE pm_v2_zero,
                      overlap |-> IF hasM /\ ~(diff2 > radius2)
                                  THEN circle.radius - pm_sqrt(diff2)
                                  ELSE FLT_MAX]
        ELSE base @@ [exit |-> faceDiff > 0 /\ pm_abs(faceDiff) > circle.radius,
                      normal |-> poly.normals[i],
                      overlap |-> circle.radius - faceDiff]

PolyCircleEdge(poly, circle, hasM, i) ==
    LET count == poly.vertex_count
        radius2 == FMul(circle.radius, circle.radius)
        next == IF (i + 1) = count THEN 0 ELSE i + 1
        prev == IF (i - 1) <= 0 THEN count - 1 ELSE i - 1
        point == pm_v2_sub(circle.pos, poly.vertices[i])
        region == sat_voronoi_region(point, poly.edges[i])
        other == IF region = "LEFT" THEN prev ELSE next
        point2 == pm_v2_sub(circle.pos, poly.vertices[other])
        region2 == IF region = "MIDDLE" THEN "NONE"
                   ELSE sat_voronoi_region(point2, poly.edges[other])
        vertexCase == \/ region = "LEFT" /\ region2 = "RIGHT"
                      \/ region = "RIGHT" /\ region2 = "LEFT"
        diff2 == pm_v2_len2(point)
        faceDiff == pm_v2_dot(poly.normals[i], point)
        base == [i |-> i, prev |-> prev, next |-> next,
                 region |-> region, region2 |-> region2]
    IN  IF vertexCase
        THEN base @@ [exit |-> diff2 > radius2,
                      normal |-> IF hasM /\ ~(diff2 > radius2)
                                 THEN pm_v2_normalize(point) ELSE pm_v2_zero,
                      overlap |-> IF hasM /\ ~(diff2 > radius2)
                                  THEN circle.radius - pm_sqrt(diff2)
                                  ELSE FLT_MAX]
        ELSE IF region = "MIDDLE"
        THEN base @@ [exit |-> faceDiff > 0 /\ pm_abs(faceDiff) > circle.radius,
                      normal |-> poly.normals[i],
                      overlap |-> circle.radius - faceDiff]
        ELSE base @@ [exit |-> FALSE,
                      normal |-> pm_v2_zero,
                      overlap |-> FLT_MAX]

RECURSIVE PolyCircleLoop(_, _, _, _, _, _)
PolyCircleLoop(poly, circle, hasM, m, i, tr) ==
    IF i >= poly.vertex_count
    THEN [ret |-> TRUE, manifold |-> m, trace |-> tr]
    ELSE LET e == PolyCircleEdge(poly, circle, hasM, i)
             m2 == IF hasM /\ ~e.exit
                   THEN sat_update_manifold(m, e.normal, e.overlap)
                   ELSE m
             step == e @@ [before |-> m, after |-> m2]
         IN  IF e.exit
             THEN [ret |-> FALSE, manifold |-> m, trace |-> Append(tr, step)]
             ELSE PolyCircleLoop(poly, circle, hasM, m2, i + 1, Append(tr, step))

sat_test_poly_circle(poly, circle, hasM, m) ==
    PolyCircleLoop(poly, circle, hasM,
                   IF hasM THEN sat_init_manifold ELSE m, 0, << >>)

\* sat_test_circle_poly that negates the normal but forgets the vector.
sat_test_circle_poly_normal_only(circle, poly, hasM, m) ==
    LET r == sat_test_poly_circle(poly, circle, hasM, m)
    IN  [ret |-> r.ret,
         manifold |->
             IF hasM
             THEN [normal |-> pm_v2_neg(r.manifold.normal),
                   overlap |-> r.manifold.overlap,
                   vector |-> r.manifold.vector]
             ELSE r.manifold,
         trace |-> r.trace]

sat_test_circle_poly(circle, poly, hasM, m) ==
    LET r == sat_test_poly_circle(poly, circle, hasM, m)
    IN  [ret |-> r.ret,
         manifold |->
             IF hasM
             THEN [normal |-> pm_v2_neg(r.manifold.normal),
                   overlap |-> r.manifold.overlap,
                   vector |-> pm_v2_neg(r.manifold.vector)]
             ELSE r.manifold,
         trace |-> r.trace]

\* ------------------------------------------------------------- state

VARIABLES
    shape1,     \* the caller's first shape (NoShape until constructed)
    shape2,     \* the caller's second shape
    manifold,   \* the caller's sat_manifold_t
    ret,        \* the value the last test routine returned
    call,       \* the last call: its name and arguments
    trace       \* the loop iterations the last test routine went through

vars == << shape1, shape2, manifold, ret, call, trace >>

\* What the caller's manifold holds before any test has written it.
StaleManifold ==
    [normal |-> pm_v2_make(F(7), F(7)), overlap |-> F(7),
     vector |-> pm_v2_make(F(7), F(7))]

NoBox == pm_b2_make(0, 0, 0, 0)

Call(op, first, hasM, aabb) ==
    [op |-> op, first |-> first, hasM |-> hasM, aabb |-> aabb]

\* Vertex lists handed to sat_make_poly, wound as sat_aabb_to_poly winds a
\* box: a 3-4-5 triangle, the same triangle turned by half a turn, and an
\* octagon of PICO_SAT_MAX_POLY_VERTS vertices.
Triangle == << << -2, -1 >>, << -2, 2 >>, << 2, -1 >> >>

Flipped == << << 2, -2 >>, << -2, 1 >>, << 2, 1 >> >>

Octagon == << << -4, -1 >>, << -4, 1 >>, << -1, 5 >>, << 1, 5 >>,
              << 4, 1 >>, << 4, -1 >>, << 1, -5 >>, << -1, -5 >> >>

BaseShapes == { Triangle, Flipped, Octagon }

\* << width, height >> of the boxes handed to sat_aabb_to_poly.
BoxSizes == { << 1, 1 >>, << 2, 1 >> }

Grid(n) == ((0 - n)..n) \X ((0 - n)..n)

\* The first shape sits at the origin, the second anywhere on a grid.
Centres(k) == IF k = 1 THEN { << 0, 0 >> } ELSE Grid(MaxCoord)

Offsets(k) == IF k = 1 THEN { << 0, 0 >> } ELSE Grid(MaxOff)

Translated(base, off) ==
    [i \in 1..Len(base) |->
        pm_v2_make(F(base[i][1] + off[1]), F(base[i][2] + off[2]))]

\* What a read of an uninitialised pm_v2 may yield.
Garbage == { pm_v2_zero, pm_v2_make(F(3), 0 - F(2)) }

Slot(k) == IF k = 1 THEN shape1 ELSE shape2

SetSlot(k, s) ==
    /\ Slot(k) = NoShape
    /\ shape1' = IF k = 1 THEN s ELSE shape1
    /\ shape2' = IF k = 2 THEN s ELSE shape2

Init ==
    /\ shape1 = NoShape
    /\ shape2 = NoShape
    /\ manifold = StaleManifold
    /\ ret = FALSE
    /\ call = Call("none", 0, FALSE, NoBox)
    /\ trace = << >>

\* ----------------------------------------------------------- actions

MakeCircle(k) ==
    \E off \in Centres(k), r \in 0..MaxRadius :
        /\ SetSlot(k, sat_make_circle(pm_v2_make(F(off[1]), F(off[2])), F(r)))
        /\ call' = Call("make_circle", k, FALSE, NoBox)
        /\ UNCHANGED << manifold, ret, trace >>

MakePoly(k) ==
    \E base \in BaseShapes, off \in Offsets(k) :
        /\ Len(base) <= PICO_SAT_MAX_POLY_VERTS
        /\ SetSlot(k, sat_make_poly(Len(base), Translated(base, off)))
        /\ call' = Call("make_poly", k, FALSE, NoBox)
        /\ UNCHANGED << manifold, ret, trace >>

AabbToPoly(k) ==
    \E off \in Offsets(k), size \in BoxSizes :
        LET aabb == pm_b2_make(F(off[1]), F(off[2]), F(size[1]), F(size[2]))
        IN  /\ SetSlot(k, sat_aabb_to_poly(aabb))
            /\ call' = Call("aabb_to_poly", k, FALSE, aabb)
            /\ UNCHANGED << manifold, ret, trace >>

\* A test routine that squares the radius of the caller's first circle in
\* place instead of in a local.
Return_radius2(op, first, hasM, result) ==
    LET r == result
    IN
    /\ ret' = r.ret
    /\ manifold' = r.manifold
    /\ trace' = r.trace
    /\ call' = Call(op, first, hasM, NoBox)
    /\ shape1' = IF shape1.kind = "circle"
                 THEN [shape1 EXCEPT !.radius = FMul(@, @)] ELSE shape1
    /\ UNCHANGED shape2

\* The effect of a test routine on the caller's state: its result r, with
\* the shapes passed by pointer to const.
Return(op, first, hasM, result) ==
    LET r == result
    IN
    /\ ret' = r.ret
    /\ manifold' = r.manifold
    /\ trace' = r.trace
    /\ call' = Call(op, first, hasM, NoBox)
    /\ UNCHANGED << shape1, shape2 >>

TestCircleCircle(first, hasM) ==
    /\ Slot(first).kind = "circle"
    /\ Slot(3 - first).kind = "circle"
    /\ Return("circle_circle", first, hasM,
              sat_test_circle_circle(Slot(first), Slot(3 - first), hasM, manifold))

TestPolyPoly(first, hasM) ==
    /\ Slot(first).kind = "poly"
    /\ Slot(3 - first).kind = "poly"
    /\ \E g \in IF hasM /\ Slot(first).vertex_count > Slot(3 - first).vertex_count
                THEN Garbage ELSE { pm_v2_zero } :
          Return("poly_poly", first, hasM,
                 sat_test_poly_poly(Slot(first), Slot(3 - first), hasM, manifold, g))

TestPolyCircle(first, hasM) ==
    /\ Slot(first).kind = "poly"
    /\ Slot(3 - first).kind = "circle"
    /\ Return("poly_circle", first, hasM,
              sat_test_poly_circle(Slot(first), Slot(3 - first), hasM, manifold))

TestCirclePoly(first, hasM) ==
    /\ Slot(first).kind = "circle"
    /\ Slot(3 - first).kind = "poly"
    /\ Return("circle_poly", first, hasM,
              sat_test_circle_poly(Slot(first), Slot(3 - first), hasM, manifold))

Next ==
    \/ \E k \in {1, 2} : MakeCircle(k)
    \/ \E k \in {1, 2} : MakePoly(k)
    \/ \E k \in {1, 2} : AabbToPoly(k)
    \/ \E first \in {1, 2}, hasM \in BOOLEAN : TestCircleCircle(first, hasM)
    \/ \E first \in {1, 2}, hasM \in BOOLEAN : TestPolyPoly(first, hasM)
    \/ \E first \in {1, 2}, hasM \in BOOLEAN : TestPolyCircle(first, hasM)
    \/ \E first \in {1, 2}, hasM \in BOOLEAN : TestCirclePoly(first, hasM)

Spec == Init /\ [][Next]_vars

\* ------------------------------------------------- exact geometry
\* The inputs are whole numbers of units, so the geometric facts the
\* claims speak of are computed here on the integers, without pm_float.

U(a) == a \div Scale

UV(v) == << U(v.x), U(v.y) >>

Dot2(a, b) == a[1] * b[1] + a[2] * b[2]

Sub2(a, b) == << a[1] - b[1], a[2] - b[2] >>

\* The outward side of an edge e of a polygon wound as the library winds.
Out2(e) == << 0 - e[2], e[1] >>

First == Slot(call.first)

Second == Slot(3 - call.first)

Indices(poly) == 0..(poly.vertex_count - 1)

NextIndex(poly, i) == IF i + 1 = poly.vertex_count THEN 0 ELSE i + 1

\* The centre c lies in the polygon or on its boundary.
CentreInside(poly, c) ==
    \A i \in Indices(poly) :
        Dot2(Out2(UV(poly.edges[i])), Sub2(c, UV(poly.vertices[i]))) <= 0

\* The distance from c to the edge i (a segment) is greater than r.
EdgeFartherThan(poly, i, c, r) ==
    LET e == UV(poly.edges[i])
        p == Sub2(c, UV(poly.vertices[i]))
        q == Sub2(c, UV(poly.vertices[NextIndex(poly, i)]))
        t == Dot2(p, e)
        len2 == Dot2(e, e)
        h == Dot2(Out2(e), p)
    IN  IF t <= 0 THEN Dot2(p, p) > r * r
        ELSE IF t >= len2 THEN Dot2(q, q) > r * r
        ELSE h * h > r * r * len2

\* The distance from the centre of the circle to the polygon (0 inside)
\* is greater than the radius.
Apart(poly, circle) ==
    LET c == UV(circle.pos)
        r == U(circle.radius)
    IN  /\ ~CentreInside(poly, c)
        /\ \A i \in Indices(poly) : EdgeFartherThan(poly, i, c, r)

\* The centre lies past the end of edge i and before the start of the next
\* edge: the vertex region of vertex i+1.
InVertexRegionAfter(poly, i, c) ==
    LET e == UV(poly.edges[i])
        n == NextIndex(poly, i)
    IN  /\ Dot2(Sub2(c, UV(poly.vertices[i])), e) > Dot2(e, e)
        /\ Dot2(Sub2(c, UV(poly.vertices[n])), UV(poly.edges[n])) < 0

\* ---------------------------------------------------------------- C1
\* C1: sat_test_poly_circle returns false exactly when the circle and the
\* polygon are apart, i.e. when the distance from the centre to the polygon
\* (0 if the centre is inside) is greater than the radius; a circle within
\* radius of the vertex whose region holds its centre collides.
C1_PolyCircleVerdict ==
    call.op = "poly_circle" => (ret = ~Apart(First, Second))

\* ---------------------------------------------------------------- C3
\* C3: sat_test_circle_circle returns false exactly when the squared
\* distance of the centres is >= (r1 + r2)^2, so tangent circles do not
\* collide.
C3_CircleCircleVerdict ==
    call.op = "circle_circle" =>
        LET d == Sub2(UV(Second.pos), UV(First.pos))
            tr == U(First.radius) + U(Second.radius)
        IN  ret = ~(Dot2(d, d) >= tr * tr)

\* Two tangent circles of positive radius, with distinct centres, were
\* tested and reported as not colliding.
C3_Witness ==
    /\ call.op = "circle_circle"
    /\ ret = FALSE
    /\ LET d == Sub2(UV(Second.pos), UV(First.pos))
           tr == U(First.radius) + U(Second.radius)
       IN  Dot2(d, d) = tr * tr /\ First.radius > 0 /\ Second.radius > 0

\* ---------------------------------------------------------------- C2

SetMax(S) == CHOOSE m \in S : \A x \in S : x <= m

SetMin(S) == CHOOSE m \in S : \A x \in S : m <= x

\* The projections of the vertices of poly onto the direction a.
Proj(poly, a) == { Dot2(UV(poly.vertices[i]), a) : i \in Indices(poly) }

\* The directions of the face normals of poly.
AxesOf(poly) == { Out2(UV(poly.edges[i])) : i \in Indices(poly) }

\* The projection intervals of P and Q onto a do not intersect.
SeparatedOn(a, P, Q) ==
    \/ SetMax(Proj(P, a)) < SetMin(Proj(Q, a))
    \/ SetMax(Proj(Q, a)) < SetMin(Proj(P, a))

\* The projection intervals of P and Q onto a share at most an endpoint.
NoDepthOn(a, P, Q) ==
    \/ SetMax(Proj(P, a)) <= SetMin(Proj(Q, a))
    \/ SetMax(Proj(Q, a)) <= SetMin(Proj(P, a))

\* C2 as stated: sat_test_poly_poly returns false if and only if the
\* projection intervals do not intersect on some face normal of either
\* polygon; intervals that only touch count as intersecting (true).
C2_Original ==
    call.op = "poly_poly" =>
        (ret = FALSE <=>
            \E a \in AxesOf(First) \cup AxesOf(Second) : SeparatedOn(a, First, Second))

\* C2 (amended): sat_test_poly_poly returns false if and only if, on some
\* face normal of either polygon, the projection intervals do not intersect
\* or only touch at an endpoint (the overlap along that axis is 0).
C2_PolyPolyVerdict ==
    call.op = "poly_poly" =>
        (ret = FALSE <=>
            \E a \in AxesOf(First) \cup AxesOf(Second) : NoDepthOn(a, First, Second))

\* Two polygons whose intervals intersect on every axis and only touch on
\* one were tested, and the test returned false.
C2_Witness ==
    /\ call.op = "poly_poly"
    /\ ret = FALSE
    /\ \A a \in AxesOf(First) \cup AxesOf(Second) : ~SeparatedOn(a, First, Second)
    /\ \E a \in AxesOf(First) \cup AxesOf(Second) : NoDepthOn(a, First, Second)

\* ---------------------------------------------------------------- C4

\* |sat_axis_overlap| on each of the vertex_count1 + vertex_count2 axes, as
\* the two loops of sat_test_poly_poly(P, Q) measure it.
AxisDepths(P, Q) ==
    { << P.normals[i], pm_abs(sat_axis_overlap(P, Q, P.normals[i])) >> :
          i \in Indices(P) } \cup
    { << Q.normals[i], pm_abs(sat_axis_overlap(Q, P, Q.normals[i])) >> :
          i \in Indices(Q) }

MinDepth(P, Q) == SetMin({ d[2] : d \in AxisDepths(P, Q) })

\* C4: when sat_test_poly_poly returns true with a manifold, overlap is the
\* minimum of |sat_axis_overlap| over all axes tested, normal is, up to
\* sign, an axis on which that minimum was measured, and
\* vector = normal * overlap.  It is stated for the calls that read only
\* initialised normals (vertex_count1 <= vertex_count2), where the routine
\* is deterministic.
C4_PolyPolyManifold ==
    (call.op = "poly_poly" /\ call.hasM /\ ret
        /\ First.vertex_count <= Second.vertex_count) =>
        /\ manifold.overlap = MinDepth(First, Second)
        /\ \E d \in AxisDepths(First, Second) :
              /\ d[2] = manifold.overlap
              /\ manifold.normal \in { d[1], pm_v2_neg(d[1]) }
        /\ manifold.vector = pm_v2_scale(manifold.normal, manifold.overlap)

\* ---------------------------------------------------------------- C5

\* C5: sat_test_circle_poly(C, P, m1) returns what sat_test_poly_circle(P,
\* C, m2) returns, with m1.normal = -m2.normal, m1.vector = -m2.vector and
\* m1.overlap = m2.overlap.
C5_Duality ==
    call.op = "circle_poly" =>
        LET r == sat_test_poly_circle(Second, First, call.hasM, StaleManifold)
        IN  /\ ret = r.ret
            /\ call.hasM =>
                  /\ manifold.normal = pm_v2_neg(r.manifold.normal)
                  /\ manifold.vector = pm_v2_neg(r.manifold.vector)
                  /\ manifold.overlap = r.manifold.overlap

\* sat_test_circle_poly returned true with a manifold whose vector is not 0.
C5_Witness ==
    /\ call.op = "circle_poly"
    /\ call.hasM
    /\ ret
    /\ manifold.vector # pm_v2_zero

\* ---------------------------------------------------------------- C6

\* C6: when sat_test_poly_poly(P, Q) returns true, its manifold and the
\* manifold of sat_test_poly_poly(Q, P) have equal overlap and opposite
\* normals.  It is stated for polygons in general position (the least depth
\* is measured on one axis direction only, and differs from the depth
\* measured from the other side of that axis: otherwise which of two equal
\* candidates wins depends on the order of the arguments) and of equal
\* vertex counts (both calls then read only initialised normals).
GeneralPosition(P, Q) ==
    \A d \in AxisDepths(P, Q) :
        d[2] = MinDepth(P, Q) =>
            /\ sat_axis_overlap(P, Q, d[1]) = 0 - sat_axis_overlap(Q, P, d[1])
            /\ \A e \in AxisDepths(P, Q) :
                   e[2] = d[2] => e[1] \in { d[1], pm_v2_neg(d[1]) }

C6_Symmetry ==
    (call.op = "poly_poly" /\ call.hasM /\ ret
        /\ First.vertex_count = Second.vertex_count
        /\ GeneralPosition(First, Second)) =>
        LET r == sat_test_poly_poly(Second, First, TRUE, StaleManifold, pm_v2_zero)
        IN  /\ r.ret
            /\ r.manifold.overlap = manifold.overlap
            /\ r.manifold.normal = pm_v2_neg(manifold.normal)

\* ---------------------------------------------------------------- C7

TestOps == { "poly_poly", "poly_circle", "circle_poly", "circle_circle" }

\* |v| = 1 up to the rounding of pm_sqrt and of the division (1 per cent).
IsUnit(v) == pm_abs(pm_v2_len2(v) - Scale) <= Scale \div 100

\* C7: whenever a test routine returns true with a manifold supplied,
\* normal is a unit vector, overlap is finite and non-negative, and
\* vector = normal * overlap.
C7_ManifoldWellFormed ==
    (call.op \in TestOps /\ call.hasM /\ ret) =>
        /\ IsUnit(manifold.normal)
        /\ manifold.overlap >= 0
        /\ manifold.overlap < FLT_MAX
        /\ manifold.vector = pm_v2_scale(manifold.normal, manifold.overlap)

\* ---------------------------------------------------------------- C8

Shape(k) == IF k = 1 THEN shape1 ELSE shape2

\* The polygon turns, at every vertex, away from the side pm_v2_perp sends
\* its edges to: the winding sat_make_poly asks for.
WoundForMakePoly(poly) ==
    \A i \in Indices(poly) :
        pm_v2_dot(pm_v2_perp(poly.edges[i]), poly.edges[NextIndex(poly, i)]) < 0

\* Every face normal is a unit vector with no vertex of the polygon on its
\* positive side.
NormalsOutward(poly) ==
    \A i \in Indices(poly) :
        /\ pm_v2_len2(poly.normals[i]) = Scale
        /\ \A j \in Indices(poly) :
              pm_v2_dot(poly.normals[i],
                        pm_v2_sub(poly.vertices[j], poly.vertices[i])) <= 0
        /\ \E j \in Indices(poly) :
              pm_v2_dot(poly.normals[i],
                        pm_v2_sub(poly.vertices[j], poly.vertices[i])) < 0

C9_ShapesReadOnly ==
    [][call'.op \in TestOps =>
          /\ shape1' = shape1
          /\ shape2' = shape2
          /\ (~call'.hasM => manifold' = manifold)]_vars

\* A test was run without a manifold on a circle of radius 2 and reported a
\* collision; the manifold still holds what it held.
C9_Witness ==
    /\ call.op \in TestOps
    /\ ~call.hasM
    /\ ret
    /\ manifold = StaleManifold
    /\ shape1.kind = "circle"
    /\ shape1.radius = F(2)

\* --------------------------------------------------------------- C10

PolyCircleOps == { "poly_circle", "circle_poly" }

ThePoly == IF call.op = "poly_circle" THEN First ELSE Second

TheCircle == IF call.op = "poly_circle" THEN Second ELSE First

\* The iteration classified LEFT (RIGHT) and its follow-up classification
\* did not come out RIGHT (LEFT).
Unconfirmed(step) ==
    \/ step.region = "LEFT" /\ step.region2 # "RIGHT"
    \/ step.region = "RIGHT" /\ step.region2 # "LEFT"

\* C10 as stated: such an iteration falls through to the face-normal branch:
\* the candidate normal is normals[i], diff = normals[i] . (centre -
\* vertices[i]), the routine returns false if diff > 0 and |diff| > radius,
\* and otherwise the manifold is updated with overlap = radius - diff.
C10_Original ==
    call.op \in PolyCircleOps =>
        \A k \in 1..Len(trace) :
            Unconfirmed(trace[k]) =>
                LET step == trace[k]
                    normal == ThePoly.normals[step.i]
                    diff == pm_v2_dot(normal,
                                pm_v2_sub(TheCircle.pos, ThePoly.vertices[step.i]))
                IN  /\ step.exit = (diff > 0 /\ pm_abs(diff) > TheCircle.radius)
                    /\ ~step.exit =>
                          /\ step.normal = normal
                          /\ step.overlap = TheCircle.radius - diff
                          /\ call.hasM =>
                                step.after = sat_update_manifold(step.before, normal,
                                                 TheCircle.radius - diff)

\* C10 (amended): such an iteration does not fall through: the routine does
\* not return false in it, the candidate stays at normal = 0 and overlap =
\* FLT_MAX, and the manifold comes out of the iteration unchanged.
C10_NoFallThrough ==
    call.op \in PolyCircleOps =>
        \A k \in 1..Len(trace) :
            Unconfirmed(trace[k]) =>
                /\ ~trace[k].exit
                /\ trace[k].normal = pm_v2_zero
                /\ trace[k].overlap = FLT_MAX
                /\ trace[k].after = trace[k].before

\* A test with a manifold returned true after an unconfirmed iteration in
\* which the face-normal branch would have replaced the manifold.
C10_Witness ==
    /\ call.op \in PolyCircleOps
    /\ call.hasM
    /\ ret
    /\ \E k \in 1..Len(trace) :
          /\ Unconfirmed(trace[k])
          /\ LET normal == ThePoly.normals[trace[k].i]
                 diff == pm_v2_dot(normal,
                             pm_v2_sub(TheCircle.pos, ThePoly.vertices[trace[k].i]))
             IN  sat_update_manifold(trace[k].before, normal,
                                     TheCircle.radius - diff) # trace[k].before

\* ------------------------------------------------------------- C11

\* C11: in sat_test_poly_circle the neighbour indices of every edge the loop
\* visits are cyclic: next = (i + 1) mod count and
\* prev = (i - 1 + count) mod count, so that the previous edge of edge 1 is
\* edge 0.
C11_CyclicNeighbours ==
    call.op \in PolyCircleOps =>
        \A k \in 1..Len(trace) :
            LET count == ThePoly.vertex_count
                i == trace[k].i
            IN  /\ trace[k].next = (i + 1) % count
                /\ trace[k].prev = (i - 1 + count) % count

\* C11, the part the code keeps: next is cyclic at every edge, and prev is
\* cyclic at every edge but edge 1.
C11_NextCyclic ==
    call.op \in PolyCircleOps =>
        \A k \in 1..Len(trace) :
            LET count == ThePoly.vertex_count
                i == trace[k].i
            IN  /\ trace[k].next = (i + 1) % count
                /\ i # 1 => trace[k].prev = (i - 1 + count) % count
                /\ i = 1 => trace[k].prev = count - 1

\* ------------------------------------------------------------- C12

\* The steps of the last test call at which sat_update_manifold was invoked:
\* those of a call that was passed a manifold, at which the routine did not
\* return false (sat_test_poly_poly returns false before the call when the
\* overlap is 0, so its field exit covers that case).
UpdateSteps ==
    IF call.op \in TestOps /\ call.hasM
    THEN { k \in 1..Len(trace) : ~trace[k].exit }
    ELSE { }

\* C12: no test routine invokes sat_update_manifold with a candidate signed
\* overlap of exactly 0, so the branch of sat_update_manifold that leaves
\* the normal unchanged is not reached in a test that returns true.
C12_NoZeroCandidate ==
    \A k \in UpdateSteps : trace[k].overlap # 0

\* ------------------------------------------------------------- C13

\* A manifold that no update could replace if it were not reset first.
ZeroManifold ==
    [normal |-> pm_v2_make(F(1), 0), overlap |-> 0, vector |-> pm_v2_zero]

\* The manifold the last test call leaves when it is handed the manifold m
\* instead of the one it was handed (g as in sat_test_poly_poly).
Rerun(m, g) ==
    CASE call.op = "circle_circle" ->
             sat_test_circle_circle(First, Second, TRUE, m).manifold
      [] call.op = "poly_poly" ->
             sat_test_poly_poly(First, Second, TRUE, m, g).manifold
      [] call.op = "poly_circle" ->
             sat_test_poly_circle(First, Second, TRUE, m).manifold
      [] call.op = "circle_poly" ->
             sat_test_circle_poly(First, Second, TRUE, m).manifold

\* The values an uninitialised read of the last call may have yielded.
GarbageOfCall ==
    IF call.op = "poly_poly" /\ First.vertex_count > Second.vertex_count
    THEN Garbage ELSE { pm_v2_zero }

\* C13: a test call that is passed a manifold first resets it to the
\* sentinel (overlap FLT_MAX, normal and vector zero) whatever it held, no
\* sat_update_manifold step raises manifold.overlap, each step starts from
\* what the step before left, and the manifold on return is the one the same
\* call leaves when started from any other manifold: it depends on the
\* shapes of the last call only.
C13_ManifoldLifecycle ==
    call.op \in TestOps /\ call.hasM =>
        /\ Len(trace) = 0 => manifold = sat_init_manifold
        /\ Len(trace) > 0 => trace[1].before = sat_init_manifold
        /\ \A k \in 1..Len(trace) :
               /\ trace[k].after.overlap <= trace[k].before.overlap
               /\ trace[k].after # trace[k].before =>
                      pm_abs(trace[k].overlap) < trace[k].before.overlap
               /\ k < Len(trace) => trace[k + 1].before = trace[k].after
        /\ Len(trace) > 0 =>
               /\ manifold.overlap = trace[Len(trace)].after.overlap
               /\ call.op # "circle_poly" => manifold = trace[Len(trace)].after
        /\ \E g \in GarbageOfCall :
               /\ manifold = Rerun(StaleManifold, g)
               /\ manifold = Rerun(ZeroManifold, g)

\* A test that was passed a manifold returned true after a step that
\* replaced the manifold and a later step whose larger candidate was turned
\* down, and it left a manifold that is neither the sentinel nor what the
\* caller's manifold held before any test.
C13_Witness ==
    /\ call.op \in TestOps
    /\ call.hasM
    /\ ret = TRUE
    /\ manifold # StaleManifold
    /\ manifold # sat_init_manifold
    /\ \E j, k \in 1..Len(trace) :
           /\ j < k
           /\ trace[j].after # trace[j].before
           /\ pm_abs(trace[k].overlap) > trace[k].before.overlap
           /\ trace[k].after = trace[k].before

\* ------------------------------------------------------------- C14

\* C14: every element a test routine reads from a polygon's vertices, edges
\* or normals has an index below that polygon's vertex_count, so that only
\* entries written by sat_make_poly are read: in sat_test_poly_poly the
\* axis index of either loop and, in the first loop, the index of the read
\* poly2->normals[i]; in sat_test_poly_circle the indices i, prev and next.
C14_IndexSafety ==
    /\ call.op = "poly_poly" =>
           \A k \in 1..Len(trace) :
               /\ trace[k].loop = 1 => trace[k].i \in Indices(First)
               /\ trace[k].loop = 2 => trace[k].i \in Indices(Second)
               /\ trace[k].loop = 1 /\ trace[k].read =>
                      trace[k].i \in Indices(Second)
    /\ call.op \in PolyCircleOps =>
           \A k \in 1..Len(trace) :
               /\ trace[k].i \in Indices(ThePoly)
               /\ trace[k].prev \in Indices(ThePoly)
               /\ trace[k].next \in Indices(ThePoly)

\* C14, the part the code keeps: every index but that of the read
\* poly2->normals[i] in the first loop of sat_test_poly_poly is in range,
\* and that one is in range when poly1 has no more vertices than poly2.
C14_OtherIndices ==
    /\ call.op = "poly_poly" =>
           \A k \in 1..Len(trace) :
               /\ trace[k].loop = 1 => trace[k].i \in Indices(First)
               /\ trace[k].loop = 2 => trace[k].i \in Indices(Second)
               /\ trace[k].loop = 1 /\ trace[k].read
                  /\ First.vertex_count <= Second.vertex_count =>
                      trace[k].i \in Indices(Second)
    /\ call.op \in PolyCircleOps =>
           \A k \in 1..Len(trace) :
               /\ trace[k].i \in Indices(ThePoly)
               /\ trace[k].prev \in Indices(ThePoly)
               /\ trace[k].next \in Indices(ThePoly)

====
